---- MODULE Spec2Model ----
(***************************************************************************)
(* Search-algorithm engine of the Romania-map explorer:                    *)
(*   src/algorithms/uninformed.py  (Node, BFS, UCS, DFS, DLS, IDS,         *)
(*                                  bidirectional search)                  *)
(*   src/algorithms/informed.py    (get_heuristic, greedy, A* )            *)
(*   src/utils/metrics.py          (calculate_path_cost)                   *)
(*                                                                         *)
(* One call of one algorithm is one behaviour.  The call itself is one     *)
(* action (the start == goal short circuit or the initialisation), every   *)
(* iteration of the main while loop is one action (snapshot, pop, goal     *)
(* test, expansion of all children), and the loop exit is part of the same *)
(* action.  Python's heapq (heappush, heappop, heapify) is modelled by the *)
(* sift operations it performs on the list.  execution_time is wall-clock  *)
(* and is left out of the result record.                                   *)
(***************************************************************************)
EXTENDS Integers, Sequences, FiniteSets, TLC

\* ----------------------------------------------------------------- bounds
\* edge weights of the generated graphs range over 0..MaxWeight
MaxWeight == 1
\* entries of the generated heuristic tables range over 0..MaxHeuristic
MaxHeuristic == 1
\* depth_limit / max_depth arguments range over 0..MaxDepthArg
MaxDepthArg == 3
\* the generated six-location graphs have at most MaxEdges edges
MaxEdges == 6

\* ------------------------------------------------------------- locations
Designated == "Bucharest"
Locs3 == {"A", "B", "Bucharest"}
Order3 == <<"A", "B", "Bucharest">>
Locs4 == {"A", "B", "C", "Bucharest"}
Order4 == <<"A", "B", "C", "Bucharest">>
LocsABC == {"A", "B", "C"}
Locs5 == {"A", "B", "C", "D", "Bucharest"}
Locs6 == {"A", "B", "C", "D", "E", "Bucharest"}
Order6 == <<"A", "B", "C", "D", "E", "Bucharest">>
Order5 == <<"A", "B", "C", "D", "Bucharest">>

Algorithms == {"bfs", "ucs", "dfs", "dls", "ids", "bidirectional", "greedy", "astar"}

VARIABLES
    graph,              \* Location -> sequence of <<neighbor, weight>> (dict order)
    start, goal,        \* arguments of the call
    heuristic_data,     \* argument of greedy / A*: a function on a subset of locations
    depth_limit,        \* argument of depth_limited_search (local of the DLS call)
    max_depth,          \* argument of iterative_deepening_search
    alg,                \* which function is called
    pc,                 \* "call", "loop", "ids_for", "ids_acc", "done"
    nodes,              \* arena of Node objects; a Node reference is an index, 0 is None
    frontier,           \* deque / stack of Node references, or heap list of entries
    frontier_states,    \* set of states (UCS, DFS, DLS, greedy) or state -> cost (A* )
    explored,           \* set of states
    steps,              \* trace of the running (depth-limited) search
    nodes_expanded, nodes_generated, max_frontier_size,
    forward_frontier, backward_frontier,     \* bidirectional: deques
    forward_explored, backward_explored,     \* bidirectional: sequences of <<state, node>>
    reverse_graph,                           \* bidirectional
    depth,                                   \* IDS: loop variable
    result,                                  \* IDS: record returned by the DLS call
    total_nodes_expanded, total_nodes_generated, ids_max_frontier_size, all_steps,
    ret                                      \* the record the call returned

inputs == <<graph, start, goal, heuristic_data, max_depth, alg>>
single == <<frontier, frontier_states, explored>>
bidi   == <<forward_frontier, backward_frontier, forward_explored, backward_explored,
            reverse_graph>>
metric == <<nodes_expanded, nodes_generated, max_frontier_size>>
idsacc == <<depth, total_nodes_expanded, total_nodes_generated, ids_max_frontier_size,
            all_steps>>
idsv   == <<idsacc, result>>
vars   == <<inputs, depth_limit, pc, nodes, single, steps, metric, bidi, idsv, ret>>

\* ----------------------------------------------------------------- helpers
\* a maximum that keeps its first argument (faulty variant)
MaxKeepsFirst(a, b) == a

Max(a, b) == IF a >= b THEN a ELSE b

\* a reversal that keeps the order (faulty variant)
ReverseKeepsOrder(s) == s

RECURSIVE Reverse(_)
Reverse(s) == IF s = <<>> THEN <<>> ELSE Reverse(Tail(s)) \o <<Head(s)>>

Range(s) == {s[i] : i \in 1..Len(s)}

\* graph[u][v] and "v in graph[u]" on the ordered adjacency of a dict of dicts
HasEdge(g, u, v) == \E i \in 1..Len(g[u]) : g[u][i][1] = v
Weight(g, u, v) == LET i == CHOOSE j \in 1..Len(g[u]) : g[u][j][1] = v IN g[u][i][2]

\* ------------------------------------------------------------------ Node
NewNode(state, parent, action, path_cost, dpt) ==
    [state |-> state, parent |-> parent, action |-> action,
     path_cost |-> path_cost, depth |-> dpt]

RootNode(state) == NewNode(state, 0, <<>>, 0, 0)

\* Node.expand without the parent's cost (faulty variant)
ExpandMissingCost(ns, n, g) ==
    [i \in 1..Len(g[ns[n].state]) |->
        NewNode(g[ns[n].state][i][1], n, <<ns[n].state, g[ns[n].state][i][1]>>,
                g[ns[n].state][i][2], ns[n].depth + 1)]

\* Node.expand: one child per neighbor, in the dict's order
Expand(ns, n, g) ==
    [i \in 1..Len(g[ns[n].state]) |->
        NewNode(g[ns[n].state][i][1], n, <<ns[n].state, g[ns[n].state][i][1]>>,
                ns[n].path_cost + g[ns[n].state][i][2], ns[n].depth + 1)]

\* the children list without its last element (faulty variant)
ChildRefsButLast(ns, n, g) == [i \in 1..(Len(g[ns[n].state]) - 1) |-> Len(ns) + i]

\* references of the children once Expand's nodes are added to the arena
ChildRefs(ns, n, g) == [i \in 1..Len(g[ns[n].state]) |-> Len(ns) + i]

\* Node.path: walk the parent links, then reverse
RECURSIVE PathBack(_, _)
PathBack(ns, n) == IF n = 0 THEN <<>> ELSE <<ns[n].state>> \o PathBack(ns, ns[n].parent)

\* Node.path without the final reversal (faulty variant)
PathNoReverse(ns, n) == PathBack(ns, n)

Path(ns, n) == Reverse(PathBack(ns, n))

\* states of the nodes of a deque / stack
StatesOf(ns, fr) == [i \in 1..Len(fr) |-> ns[fr[i]].state]

\* ------------------------------------------------------- result records
Record(a, path, distance, ne, ng, mfs, st) ==
    [algorithm |-> a, path |-> path, distance |-> distance, nodes_expanded |-> ne,
     nodes_generated |-> ng, max_frontier_size |-> mfs, steps |-> st]

NoRecord == Record("none", <<>>, 0, 0, 0, 0, <<>>)

\* the short circuit with an empty path, or counting the root as expanded
\* (faulty variants)
TrivialEmptyPath(a, s, ne, ng, mfs) == Record(a, <<>>, 0, ne, ng, mfs, <<>>)

TrivialCountsRoot(a, s, ne, ng, mfs) == Record(a, <<s>>, 0, ne + 1, ng, mfs, <<>>)

\* the record of the start == goal short circuit
Trivial(a, s, ne, ng, mfs) == Record(a, <<s>>, 0, ne, ng, mfs, <<>>)

\* the current state never written into the snapshot (faulty variant)
SetCurrentNever(st, s) == st

\* the current state written into the first snapshot (faulty variant)
SetCurrentFirst(st, s) == [st EXCEPT ![1].current = s]

\* a snapshot of the frontier without its leftmost node (faulty variant)
SnapshotAfterPop(fr, ex) == [frontier |-> Tail(fr), explored |-> ex, current |-> "None"]

Snapshot(fr, ex) == [frontier |-> fr, explored |-> ex, current |-> "None"]

SetCurrent(st, s) == [st EXCEPT ![Len(st)].current = s]

\* utils/metrics.py calculate_path_cost
RECURSIVE SumEdges(_, _, _)
SumEdges(path, g, i) ==
    IF i >= Len(path) THEN 0
    ELSE Weight(g, path[i], path[i + 1]) + SumEdges(path, g, i + 1)

calculate_path_cost(path, g) == IF Len(path) < 2 THEN 0 ELSE SumEdges(path, g, 1)

\* ---------------------------------------------------------------- graphs
\* A dict of dicts built by inserting the present edges in the order `order`.
\* ew[<<u, v>>] is the weight of the edge u -> v, -1 when there is none.
GraphOf(locs, order, ew) ==
    [u \in locs |->
        LET vs == SelectSeq(order, LAMBDA v : v # u /\ ew[<<u, v>>] >= 0)
        IN  [i \in 1..Len(vs) |-> <<vs[i], ew[<<u, vs[i]>>]>>]]

Pairs(locs) == {p \in locs \X locs : p[1] # p[2]}

\* every directed graph on three locations (the engine does not enforce symmetry)
Graphs3 == {GraphOf(Locs3, Order3, ew) : ew \in [Pairs(Locs3) -> -1..MaxWeight]}

\* every undirected graph on four locations (both directions populated)
Edges4 == {e \in SUBSET Locs4 : Cardinality(e) = 2}
Graphs4 ==
    {GraphOf(Locs4, Order4, [p \in Pairs(Locs4) |-> ue[{p[1], p[2]}]]) :
        ue \in [Edges4 -> -1..MaxWeight]}

\* every undirected graph on five locations, all edges of weight 1
Edges5 == {e \in SUBSET Locs5 : Cardinality(e) = 2}
Graphs5 ==
    {GraphOf(Locs5, Order5, [p \in Pairs(Locs5) |-> IF {p[1], p[2]} \in es THEN 1 ELSE -1]) :
        es \in SUBSET Edges5}

\* every undirected graph on six locations with at most MaxEdges edges, all of
\* weight 1
Edges6 == {e \in SUBSET Locs6 : Cardinality(e) = 2}
Graphs6 ==
    {GraphOf(Locs6, Order6, [p \in Pairs(Locs6) |-> IF {p[1], p[2]} \in es THEN 1 ELSE -1]) :
        es \in {x \in SUBSET Edges6 : Cardinality(x) <= MaxEdges}}

\* the concrete scenario A-B(1), B-C(2), A-C(5), adjacency inserted in that order
ScenarioGraph ==
    [u \in LocsABC |->
        CASE u = "A" -> << <<"B", 1>>, <<"C", 5>> >>
          [] u = "B" -> << <<"A", 1>>, <<"C", 2>> >>
          [] u = "C" -> << <<"B", 2>>, <<"A", 5>> >>]

\* heuristic tables.  The table is read only when the goal is the designated
\* target: for that goal every table on the other locations than "A" (a state
\* missing from the table), for another goal the zero table and a non-zero one.
Tables(locs, maxh, gl) ==
    IF gl = Designated
    THEN [locs \ {"A"} -> 0..maxh]
    ELSE {[x \in locs |-> 0], [x \in locs |-> maxh]}

NoTable == [x \in {} |-> 0]

DefaultDepthLimit == 10
DefaultMaxDepth == 100

\* ------------------------------------------------------------- heuristic
\* a lookup that ignores the goal (faulty variant)
get_heuristic_any_goal(state, g, hd) == IF state \in DOMAIN hd THEN hd[state] ELSE 0

\* informed.py get_heuristic
get_heuristic(state, g, hd) ==
    IF g = Designated /\ state \in DOMAIN hd THEN hd[state] ELSE 0

\* ------------------------------------------------- reference distances
\* the simple paths s -> t of the graph (with weights >= 0 a shortest path is one)
SimplePaths(g, s, t) ==
    {p \in UNION {[1..n -> DOMAIN g] : n \in 1..Cardinality(DOMAIN g)} :
        /\ p[1] = s /\ p[Len(p)] = t
        /\ \A i, j \in 1..Len(p) : i # j => p[i] # p[j]
        /\ \A i \in 1..(Len(p) - 1) : HasEdge(g, p[i], p[i + 1])}

\* true shortest distance s -> t: the all-paths minimum, -1 when there is no path
Dist(g, s, t) ==
    LET costs == {calculate_path_cost(p, g) : p \in SimplePaths(g, s, t)}
    IN  IF costs = {} THEN -1 ELSE CHOOSE c \in costs : \A e \in costs : c <= e

Reachable(g, s, t) == Dist(g, s, t) >= 0

\* the states that s reaches over at most k edges
RECURSIVE Within(_, _, _)
Within(g, s, k) ==
    IF k = 0 THEN {s}
    ELSE LET w == Within(g, s, k - 1)
         IN  w \cup {v \in DOMAIN g : \E u \in w : HasEdge(g, u, v)}

\* least number of edges of a path s -> t, -1 when there is no path
MinHops(g, s, t) ==
    LET ks == {k \in 0..Cardinality(DOMAIN g) : t \in Within(g, s, k)}
    IN  IF ks = {} THEN -1 ELSE CHOOSE k \in ks : \A j \in ks : k <= j

\* the table never overestimates the true distance to the goal
Admissible(g, t, hd) ==
    \A s \in DOMAIN g :
        Reachable(g, s, t) => get_heuristic(s, t, hd) <= Dist(g, s, t)

\* h(goal) = 0 and h(u) <= w(u, v) + h(v) on every edge
Consistent(g, t, hd) ==
    /\ get_heuristic(t, t, hd) = 0
    /\ \A u \in DOMAIN g : \A i \in 1..Len(g[u]) :
           get_heuristic(u, t, hd) <= g[u][i][2] + get_heuristic(g[u][i][1], t, hd)

\* ------------------------------------------------------------------ Init
InitLocals ==
    /\ pc = "call"
    /\ nodes = <<>>
    /\ frontier = <<>> /\ frontier_states = {} /\ explored = {}
    /\ steps = <<>>
    /\ nodes_expanded = 0 /\ nodes_generated = 0 /\ max_frontier_size = 0
    /\ forward_frontier = <<>> /\ backward_frontier = <<>>
    /\ forward_explored = <<>> /\ backward_explored = <<>>
    /\ reverse_graph = <<>>
    /\ depth = 0 /\ result = NoRecord
    /\ total_nodes_expanded = 0 /\ total_nodes_generated = 0
    /\ ids_max_frontier_size = 0 /\ all_steps = <<>>
    /\ ret = NoRecord

InitArgs(graphs, algs, maxh) ==
    /\ graph \in graphs
    /\ start \in DOMAIN graph
    /\ goal \in DOMAIN graph
    /\ alg \in algs
    /\ heuristic_data \in IF alg \in {"greedy", "astar"}
                          THEN Tables(DOMAIN graph, maxh, goal) ELSE {NoTable}
    /\ depth_limit \in IF alg = "dls" THEN 0..MaxDepthArg ELSE {DefaultDepthLimit}
    /\ max_depth \in IF alg = "ids" THEN 0..MaxDepthArg ELSE {DefaultMaxDepth}

Init == InitArgs(Graphs3 \cup {ScenarioGraph}, Algorithms, MaxHeuristic) /\ InitLocals

\* every table on the four locations with entries in 0..MaxHeuristic that never overestimates the true distance to t
HBound(g, s, t) ==
    IF Reachable(g, s, t) /\ Dist(g, s, t) < MaxHeuristic
    THEN Dist(g, s, t) ELSE MaxHeuristic

AdmissibleTables(g, t) ==
    [A : 0..HBound(g, "A", t), B : 0..HBound(g, "B", t), C : 0..HBound(g, "C", t),
     Bucharest : 0..HBound(g, "Bucharest", t)]

\* the cost-aware searches on the four-location graphs, towards the designated
\* target, A* with every admissible table
InitCost ==
    /\ graph \in Graphs4
    /\ goal = Designated
    /\ start \in DOMAIN graph \ {goal}
    /\ alg \in {"ucs", "astar"}
    /\ heuristic_data \in IF alg = "astar"
                          THEN AdmissibleTables(graph, goal) ELSE {NoTable}
    /\ depth_limit = DefaultDepthLimit
    /\ max_depth = DefaultMaxDepth
    /\ InitLocals

\* breadth-first search on the five-location graphs, towards the designated target
InitHops ==
    /\ graph \in Graphs5
    /\ goal = Designated
    /\ start \in DOMAIN graph \ {goal}
    /\ alg = "bfs"
    /\ heuristic_data = NoTable
    /\ depth_limit = DefaultDepthLimit
    /\ max_depth = DefaultMaxDepth
    /\ InitLocals

\* bidirectional search on the five-location graphs, towards the designated target
InitMeet ==
    /\ graph \in Graphs5
    /\ goal = Designated
    /\ start \in DOMAIN graph \ {goal}
    /\ alg = "bidirectional"
    /\ heuristic_data = NoTable
    /\ depth_limit = DefaultDepthLimit
    /\ max_depth = DefaultMaxDepth
    /\ InitLocals

\* the stack-based searches on the six-location graphs, from A towards the
\* designated target: depth_first_search, depth_limited_search with every limit
\* in 0..MaxDepthArg, iterative_deepening_search with max_depth = MaxDepthArg + 2
InitDeep ==
    /\ graph \in Graphs6
    /\ start = "A"
    /\ goal = Designated
    /\ alg \in {"dfs", "dls", "ids"}
    /\ heuristic_data = NoTable
    /\ depth_limit \in IF alg = "dls" THEN 0..MaxDepthArg ELSE {DefaultDepthLimit}
    /\ max_depth = IF alg = "ids" THEN MaxDepthArg + 2 ELSE DefaultMaxDepth
    /\ InitLocals

\* ----------------------------------------------------------------- heapq
\* A heap entry is the tuple the code pushes: (key, node) for UCS and greedy,
\* (key, id(node), node) for A*.  Entries without an id carry id 0.
Entry(key, id, node) == [key |-> key, id |-> id, node |-> node]

\* Python's tuple comparison: the first differing component decides; the last
\* component is a Node, compared by Node.__lt__ (path_cost).
LtEntry(ns, a, b) ==
    \/ a.key < b.key
    \/ /\ a.key = b.key
       /\ \/ a.id < b.id
          \/ a.id = b.id /\ ns[a.node].path_cost < ns[b.node].path_cost

\* heapq._siftdown(heap, startpos, pos); positions are 0-based as in Python
RECURSIVE SiftDownLoop(_, _, _, _, _)
SiftDownLoop(ns, h, startpos, pos, newitem) ==
    IF pos > startpos
    THEN LET parentpos == (pos - 1) \div 2
             parent    == h[parentpos + 1]
         IN  IF LtEntry(ns, newitem, parent)
             THEN SiftDownLoop(ns, [h EXCEPT ![pos + 1] = parent], startpos, parentpos,
                               newitem)
             ELSE [h EXCEPT ![pos + 1] = newitem]
    ELSE [h EXCEPT ![pos + 1] = newitem]

SiftDown(ns, h, startpos, pos) == SiftDownLoop(ns, h, startpos, pos, h[pos + 1])

\* heapq._siftup(heap, pos)
RECURSIVE SiftUpLoop(_, _, _, _, _)
SiftUpLoop(ns, h, startpos, pos, newitem) ==
    LET childpos == 2 * pos + 1
        rightpos == childpos + 1
    IN  IF childpos < Len(h)
        THEN LET c == IF rightpos < Len(h)
                         /\ ~LtEntry(ns, h[childpos + 1], h[rightpos + 1])
                      THEN rightpos ELSE childpos
             IN  SiftUpLoop(ns, [h EXCEPT ![pos + 1] = h[c + 1]], startpos, c, newitem)
        ELSE SiftDownLoop(ns, [h EXCEPT ![pos + 1] = newitem], startpos, pos, newitem)

SiftUp(ns, h, pos) == SiftUpLoop(ns, h, pos, pos, h[pos + 1])

\* heappush without restoring the heap order (faulty variant)
heappushNoSift(ns, h, item) == Append(h, item)

\* heapq.heappush(heap, item)
heappush(ns, h, item) == SiftDown(ns, Append(h, item), 0, Len(h))

\* a pop of the last list element instead of the least (faulty variant)
heappopLast(ns, h) == <<h[Len(h)], SubSeq(h, 1, Len(h) - 1)>>

\* heapq.heappop(heap): <<returned item, heap afterwards>>
heappop(ns, h) ==
    LET lastelt == h[Len(h)]
        rest    == SubSeq(h, 1, Len(h) - 1)
    IN  IF rest # <<>>
        THEN <<rest[1], SiftUp(ns, [rest EXCEPT ![1] = lastelt], 0)>>
        ELSE <<lastelt, rest>>

\* heapq.heapify(x): _siftup(x, i) for i in reversed(range(n // 2))
RECURSIVE HeapifyFrom(_, _, _)
HeapifyFrom(ns, h, i) == IF i < 0 THEN h ELSE HeapifyFrom(ns, SiftUp(ns, h, i), i - 1)

heapify(ns, h) == HeapifyFrom(ns, h, (Len(h) \div 2) - 1)

\* states of the nodes of a heap list, in list order
HeapStates(ns, h) == [i \in 1..Len(h) |-> ns[h[i].node].state]

\* ------------------------------------------------------------------- BFS
\* children filtered by explored only, not by the frontier (faulty variant)
RECURSIVE BfsChildrenNoFrontierCheck(_, _, _, _, _)
BfsChildrenNoFrontierCheck(ns, ch, i, fr, ex) ==
    IF i > Len(ch) THEN fr
    ELSE IF ns[ch[i]].state \notin ex
         THEN BfsChildrenNoFrontierCheck(ns, ch, i + 1, Append(fr, ch[i]), ex)
         ELSE BfsChildrenNoFrontierCheck(ns, ch, i + 1, fr, ex)

\* children filtered by the frontier only, not by explored (faulty variant)
RECURSIVE BfsChildrenNoExplored(_, _, _, _, _)
BfsChildrenNoExplored(ns, ch, i, fr, ex) ==
    IF i > Len(ch) THEN fr
    ELSE IF ns[ch[i]].state \notin Range(StatesOf(ns, fr))
         THEN BfsChildrenNoExplored(ns, ch, i + 1, Append(fr, ch[i]), ex)
         ELSE BfsChildrenNoExplored(ns, ch, i + 1, fr, ex)

\* children put at the left end of the deque (faulty variant)
RECURSIVE BfsChildrenFront(_, _, _, _, _)
BfsChildrenFront(ns, ch, i, fr, ex) ==
    IF i > Len(ch) THEN fr
    ELSE IF ns[ch[i]].state \notin ex /\ ns[ch[i]].state \notin Range(StatesOf(ns, fr))
         THEN BfsChildrenFront(ns, ch, i + 1, <<ch[i]>> \o fr, ex)
         ELSE BfsChildrenFront(ns, ch, i + 1, fr, ex)

\* uninformed.py 120-123: the loop over the children of the popped node
RECURSIVE BfsChildren(_, _, _, _, _)
BfsChildren(ns, ch, i, fr, ex) ==
    IF i > Len(ch) THEN fr
    ELSE IF ns[ch[i]].state \notin ex /\ ns[ch[i]].state \notin Range(StatesOf(ns, fr))
         THEN BfsChildren(ns, ch, i + 1, Append(fr, ch[i]), ex)
         ELSE BfsChildren(ns, ch, i + 1, fr, ex)

BfsCall ==
    /\ pc = "call" /\ alg = "bfs"
    /\ nodes_expanded' = 0 /\ nodes_generated' = 1 /\ max_frontier_size' = 1
    /\ IF start = goal
       THEN /\ ret' = Trivial("bfs", start, 0, 1, 1)
            /\ pc' = "done"
            /\ UNCHANGED <<nodes, single, steps>>
       ELSE /\ nodes' = <<RootNode(start)>>
            /\ frontier' = <<1>>
            /\ explored' = {}
            /\ steps' = <<>>
            /\ pc' = "loop"
            /\ UNCHANGED <<frontier_states, ret>>
    /\ UNCHANGED <<inputs, depth_limit, bidi, idsv>>

BfsStep ==
    /\ pc = "loop" /\ alg = "bfs"
    /\ IF frontier = <<>>
       THEN /\ ret' = Record("bfs", <<>>, 0, nodes_expanded, nodes_generated,
                             max_frontier_size, steps)
            /\ pc' = "done"
            /\ UNCHANGED <<nodes, single, steps, metric>>
       ELSE LET mfs  == Max(max_frontier_size, Len(frontier))
                snap == Append(steps, Snapshot(StatesOf(nodes, frontier), explored))
                node == Head(frontier)
                rest == Tail(frontier)
                ne   == nodes_expanded + 1
                st   == SetCurrent(snap, nodes[node].state)
            IN  /\ max_frontier_size' = mfs
                /\ nodes_expanded' = ne
                /\ steps' = st
                /\ IF nodes[node].state = goal
                   THEN /\ ret' = Record("bfs", Path(nodes, node), nodes[node].path_cost,
                                         ne, nodes_generated, mfs, st)
                        /\ pc' = "done"
                        /\ frontier' = rest
                        /\ UNCHANGED <<nodes, frontier_states, explored, nodes_generated>>
                   ELSE LET ex == explored \cup {nodes[node].state}
                            ns == nodes \o Expand(nodes, node, graph)
                            ch == ChildRefs(nodes, node, graph)
                        IN  /\ explored' = ex
                            /\ nodes' = ns
                            /\ nodes_generated' = nodes_generated + Len(ch)
                            /\ frontier' = BfsChildren(ns, ch, 1, rest, ex)
                            /\ UNCHANGED <<frontier_states, pc, ret>>
    /\ UNCHANGED <<inputs, depth_limit, bidi, idsv>>

\* ------------------------------------------------------------------- UCS
\* a scan that also hits an entry of equal cost (faulty variant)
UcsScanOrEqual(ns, fr, child) ==
    LET hits == {i \in 1..Len(fr) : /\ ns[fr[i].node].state = ns[child].state
                                    /\ ns[child].path_cost <= fr[i].key}
    IN  IF hits = {} THEN 0 ELSE CHOOSE i \in hits : \A k \in hits : i <= k

\* first index of the linear scan of uninformed.py 218-219, 0 when the scan ends
\* without a hit
UcsScan(ns, fr, child) ==
    LET hits == {i \in 1..Len(fr) : /\ ns[fr[i].node].state = ns[child].state
                                    /\ ns[child].path_cost < fr[i].key}
    IN  IF hits = {} THEN 0 ELSE CHOOSE i \in hits : \A k \in hits : i <= k

\* the loop over the children without the replacement branch (faulty variant)
RECURSIVE UcsChildrenNoReplace(_, _, _, _, _, _)
UcsChildrenNoReplace(ns, ch, i, fr, fs, ex) ==
    IF i > Len(ch) THEN <<fr, fs>>
    ELSE LET c == ns[ch[i]]
         IN  IF c.state \notin ex /\ c.state \notin fs
             THEN UcsChildrenNoReplace(ns, ch, i + 1,
                      heappush(ns, fr, Entry(c.path_cost, 0, ch[i])),
                      fs \cup {c.state}, ex)
             ELSE UcsChildrenNoReplace(ns, ch, i + 1, fr, fs, ex)

\* uninformed.py 211-222: the loop over the children; <<frontier, frontier_states>>
RECURSIVE UcsChildren(_, _, _, _, _, _)
UcsChildren(ns, ch, i, fr, fs, ex) ==
    IF i > Len(ch) THEN <<fr, fs>>
    ELSE LET c == ns[ch[i]]
         IN  IF c.state \notin ex /\ c.state \notin fs
             THEN UcsChildren(ns, ch, i + 1,
                              heappush(ns, fr, Entry(c.path_cost, 0, ch[i])),
                              fs \cup {c.state}, ex)
             ELSE IF c.state \in fs /\ UcsScan(ns, fr, ch[i]) # 0
             THEN UcsChildren(ns, ch, i + 1,
                              heapify(ns, [fr EXCEPT ![UcsScan(ns, fr, ch[i])] =
                                                 Entry(c.path_cost, 0, ch[i])]),
                              fs, ex)
             ELSE UcsChildren(ns, ch, i + 1, fr, fs, ex)

UcsCall ==
    /\ pc = "call" /\ alg = "ucs"
    /\ nodes_expanded' = 0 /\ nodes_generated' = 1 /\ max_frontier_size' = 1
    /\ IF start = goal
       THEN /\ ret' = Trivial("ucs", start, 0, 1, 1)
            /\ pc' = "done"
            /\ UNCHANGED <<nodes, single, steps>>
       ELSE /\ nodes' = <<RootNode(start)>>
            /\ frontier' = <<Entry(0, 0, 1)>>
            /\ frontier_states' = {start}
            /\ explored' = {}
            /\ steps' = <<>>
            /\ pc' = "loop"
            /\ UNCHANGED ret
    /\ UNCHANGED <<inputs, depth_limit, bidi, idsv>>

UcsStep ==
    /\ pc = "loop" /\ alg = "ucs"
    /\ IF frontier = <<>>
       THEN /\ ret' = Record("ucs", <<>>, 0, nodes_expanded, nodes_generated,
                             max_frontier_size, steps)
            /\ pc' = "done"
            /\ UNCHANGED <<nodes, single, steps, metric>>
       ELSE LET mfs  == Max(max_frontier_size, Len(frontier))
                snap == Append(steps, Snapshot(HeapStates(nodes, frontier), explored))
                pop  == heappop(nodes, frontier)
                node == pop[1].node
                rest == pop[2]
                ne   == nodes_expanded + 1
                st   == SetCurrent(snap, nodes[node].state)
            IN  /\ max_frontier_size' = mfs
                /\ IF nodes[node].state \notin frontier_states
                   THEN \* frontier_states.remove raises KeyError
                        /\ pc' = "raised"
                        /\ frontier' = rest
                        /\ steps' = snap
                        /\ UNCHANGED <<nodes, frontier_states, explored, nodes_expanded,
                                       nodes_generated, ret>>
                   ELSE /\ nodes_expanded' = ne
                        /\ steps' = st
                        /\ IF nodes[node].state = goal
                           THEN /\ ret' = Record("ucs", Path(nodes, node),
                                                 nodes[node].path_cost, ne,
                                                 nodes_generated, mfs, st)
                                /\ pc' = "done"
                                /\ frontier' = rest
                                /\ frontier_states' = frontier_states \ {nodes[node].state}
                                /\ UNCHANGED <<nodes, explored, nodes_generated>>
                           ELSE LET ex == explored \cup {nodes[node].state}
                                    ns == nodes \o Expand(nodes, node, graph)
                                    ch == ChildRefs(nodes, node, graph)
                                    fs == frontier_states \ {nodes[node].state}
                                IN  /\ explored' = ex
                                    /\ nodes' = ns
                                    /\ nodes_generated' = nodes_generated + Len(ch)
                                    /\ \E args \in {<<ns, ch, rest, fs, ex>>} :
                                         \E r \in {UcsChildren(args[1], args[2], 1, args[3],
                                                               args[4], args[5])} :
                                           /\ frontier' = r[1]
                                           /\ frontier_states' = r[2]
                                    /\ UNCHANGED <<pc, ret>>
    /\ UNCHANGED <<inputs, depth_limit, bidi, idsv>>

\* ---------------------------------------------------------------- greedy
\* informed.py 98-102: the loop over the children; <<frontier, frontier_states>>
RECURSIVE GreedyChildren(_, _, _, _, _, _)
GreedyChildren(ns, ch, i, fr, fs, ex) ==
    IF i > Len(ch) THEN <<fr, fs>>
    ELSE LET c == ns[ch[i]]
         IN  IF c.state \notin ex /\ c.state \notin fs
             THEN GreedyChildren(ns, ch, i + 1,
                      heappush(ns, fr, Entry(get_heuristic(c.state, goal, heuristic_data),
                                             0, ch[i])),
                      fs \cup {c.state}, ex)
             ELSE GreedyChildren(ns, ch, i + 1, fr, fs, ex)

GreedyCall ==
    /\ pc = "call" /\ alg = "greedy"
    /\ nodes_expanded' = 0 /\ nodes_generated' = 1 /\ max_frontier_size' = 1
    /\ IF start = goal
       THEN /\ ret' = Trivial("greedy", start, 0, 1, 1)
            /\ pc' = "done"
            /\ UNCHANGED <<nodes, single, steps>>
       ELSE /\ nodes' = <<RootNode(start)>>
            /\ frontier' = <<Entry(get_heuristic(start, goal, heuristic_data), 0, 1)>>
            /\ frontier_states' = {start}
            /\ explored' = {}
            /\ steps' = <<>>
            /\ pc' = "loop"
            /\ UNCHANGED ret
    /\ UNCHANGED <<inputs, depth_limit, bidi, idsv>>

GreedyStep ==
    /\ pc = "loop" /\ alg = "greedy"
    /\ IF frontier = <<>>
       THEN /\ ret' = Record("greedy", <<>>, 0, nodes_expanded, nodes_generated,
                             max_frontier_size, steps)
            /\ pc' = "done"
            /\ UNCHANGED <<nodes, single, steps, metric>>
       ELSE LET mfs  == Max(max_frontier_size, Len(frontier))
                snap == Append(steps, Snapshot(HeapStates(nodes, frontier), explored))
                pop  == heappop(nodes, frontier)
                node == pop[1].node
                rest == pop[2]
                ne   == nodes_expanded + 1
                st   == SetCurrent(snap, nodes[node].state)
            IN  /\ max_frontier_size' = mfs
                /\ IF nodes[node].state \notin frontier_states
                   THEN \* frontier_states.remove raises KeyError
                        /\ pc' = "raised"
                        /\ frontier' = rest
                        /\ steps' = snap
                        /\ UNCHANGED <<nodes, frontier_states, explored, nodes_expanded,
                                       nodes_generated, ret>>
                   ELSE /\ nodes_expanded' = ne
                        /\ steps' = st
                        /\ IF nodes[node].state = goal
                           THEN /\ ret' = Record("greedy", Path(nodes, node),
                                                 nodes[node].path_cost, ne,
                                                 nodes_generated, mfs, st)
                                /\ pc' = "done"
                                /\ frontier' = rest
                                /\ frontier_states' = frontier_states \ {nodes[node].state}
                                /\ UNCHANGED <<nodes, explored, nodes_generated>>
                           ELSE LET ex == explored \cup {nodes[node].state}
                                    ns == nodes \o Expand(nodes, node, graph)
                                    ch == ChildRefs(nodes, node, graph)
                                    fs == frontier_states \ {nodes[node].state}
                                IN  /\ explored' = ex
                                    /\ nodes' = ns
                                    /\ nodes_generated' = nodes_generated + Len(ch)
                                    /\ \E args \in {<<ns, ch, rest, fs, ex>>} :
                                         \E r \in {GreedyChildren(args[1], args[2], 1,
                                                        args[3], args[4], args[5])} :
                                           /\ frontier' = r[1]
                                           /\ frontier_states' = r[2]
                                    /\ UNCHANGED <<pc, ret>>
    /\ UNCHANGED <<inputs, depth_limit, bidi, idsv>>

\* -------------------------------------------------------------------- A*
\* id(node) is an address: all that the heap sees of it is how the ids of the
\* entries in the list are ordered.  The ids of the entries are kept as ranks
\* 1..len(frontier); a new node's id may fall anywhere among those of the others.
IdsMakeRoom(fr, r) ==
    [i \in 1..Len(fr) |-> IF fr[i].id >= r THEN [fr[i] EXCEPT !.id = @ + 1] ELSE fr[i]]

IdsClose(fr, r) ==
    [i \in 1..Len(fr) |-> IF fr[i].id > r THEN [fr[i] EXCEPT !.id = @ - 1] ELSE fr[i]]

DictSet(d, k, v) == [x \in DOMAIN d \cup {k} |-> IF x = k THEN v ELSE d[x]]
DictDel(d, k) == [x \in DOMAIN d \ {k} |-> d[x]]

\* a scan that never finds the entry (faulty variant: no replacement in A* )
AStarScanMiss(ns, fr, child) == 0

\* first index of the linear scan of informed.py 202-203 (0: no entry has the state)
AStarScan(ns, fr, child) ==
    LET hits == {i \in 1..Len(fr) : ns[fr[i].node].state = ns[child].state}
    IN  IF hits = {} THEN 0 ELSE CHOOSE i \in hits : \A k \in hits : i <= k

\* informed.py 204-206: frontier[i] = (f, id(child), child); heapify
AStarReplace(ns, fr, i, f, r, child) ==
    heapify(ns, [IdsMakeRoom(IdsClose(fr, fr[i].id), r) EXCEPT ![i] = Entry(f, r, child)])

\* informed.py 192-207: the loop over the children; the set of the possible
\* <<frontier, frontier_states>>, one for every order of the new ids.  (The new
\* frontier is bound by a quantifier so that it is evaluated once.)
RECURSIVE AStarChildren(_, _, _, _, _, _)
AStarChildren(ns, ch, i, fr, fs, ex) ==
    IF i > Len(ch) THEN {<<fr, fs>>}
    ELSE LET c == ns[ch[i]]
             f_value == c.path_cost + get_heuristic(c.state, goal, heuristic_data)
         IN  IF c.state \in ex
             THEN AStarChildren(ns, ch, i + 1, fr, fs, ex)
             ELSE IF c.state \notin DOMAIN fs
             THEN UNION {AStarChildren(ns, ch, i + 1, nf, nd, ex) :
                         <<nf, nd>> \in
                             {<<heappush(ns, IdsMakeRoom(fr, r), Entry(f_value, r, ch[i])),
                                DictSet(fs, c.state, c.path_cost)>> :
                              r \in 1..(Len(fr) + 1)}}
             ELSE IF c.path_cost < fs[c.state]
             THEN IF AStarScan(ns, fr, ch[i]) = 0
                  THEN AStarChildren(ns, ch, i + 1, fr, fs, ex)
                  ELSE UNION {AStarChildren(ns, ch, i + 1, nf, nd, ex) :
                              <<nf, nd>> \in
                                  {<<AStarReplace(ns, fr, AStarScan(ns, fr, ch[i]), f_value,
                                                  r, ch[i]),
                                     DictSet(fs, c.state, c.path_cost)>> :
                                   r \in 1..Len(fr)}}
             ELSE AStarChildren(ns, ch, i + 1, fr, fs, ex)

\* informed.py 169-207 for a popped node that is not the goal: the possible
\* <<frontier, frontier_states>> after the iteration that starts in this state
AStarOutcomes ==
    LET pop  == heappop(nodes, frontier)
        node == pop[1].node
        rest == IdsClose(pop[2], pop[1].id)
    IN  AStarChildren(nodes \o Expand(nodes, node, graph), ChildRefs(nodes, node, graph), 1,
                      rest, DictDel(frontier_states, nodes[node].state),
                      explored \cup {nodes[node].state})

AStarCall ==
    /\ pc = "call" /\ alg = "astar"
    /\ nodes_expanded' = 0 /\ nodes_generated' = 1 /\ max_frontier_size' = 1
    /\ IF start = goal
       THEN /\ ret' = Trivial("astar", start, 0, 1, 1)
            /\ pc' = "done"
            /\ UNCHANGED <<nodes, single, steps>>
       ELSE /\ nodes' = <<RootNode(start)>>
            /\ frontier' = <<Entry(0 + get_heuristic(start, goal, heuristic_data), 1, 1)>>
            /\ frontier_states' = DictSet(NoTable, start, 0)
            /\ explored' = {}
            /\ steps' = <<>>
            /\ pc' = "loop"
            /\ UNCHANGED ret
    /\ UNCHANGED <<inputs, depth_limit, bidi, idsv>>

AStarStep ==
    /\ pc = "loop" /\ alg = "astar"
    /\ IF frontier = <<>>
       THEN /\ ret' = Record("astar", <<>>, 0, nodes_expanded, nodes_generated,
                             max_frontier_size, steps)
            /\ pc' = "done"
            /\ UNCHANGED <<nodes, single, steps, metric>>
       ELSE LET mfs  == Max(max_frontier_size, Len(frontier))
                snap == Append(steps, Snapshot(HeapStates(nodes, frontier), explored))
                pop  == heappop(nodes, frontier)
                node == pop[1].node
                rest == IdsClose(pop[2], pop[1].id)
                ne   == nodes_expanded + 1
                st   == SetCurrent(snap, nodes[node].state)
            IN  /\ max_frontier_size' = mfs
                /\ IF nodes[node].state \notin DOMAIN frontier_states
                   THEN \* del frontier_states[...] raises KeyError
                        /\ pc' = "raised"
                        /\ frontier' = rest
                        /\ steps' = snap
                        /\ UNCHANGED <<nodes, frontier_states, explored, nodes_expanded,
                                       nodes_generated, ret>>
                   ELSE /\ nodes_expanded' = ne
                        /\ steps' = st
                        /\ IF nodes[node].state = goal
                           THEN /\ ret' = Record("astar", Path(nodes, node),
                                                 nodes[node].path_cost, ne,
                                                 nodes_generated, mfs, st)
                                /\ pc' = "done"
                                /\ frontier' = rest
                                /\ frontier_states' =
                                       DictDel(frontier_states, nodes[node].state)
                                /\ UNCHANGED <<nodes, explored, nodes_generated>>
                           ELSE LET ex == explored \cup {nodes[node].state}
                                    ns == nodes \o Expand(nodes, node, graph)
                                    ch == ChildRefs(nodes, node, graph)
                                IN  /\ explored' = ex
                                    /\ nodes' = ns
                                    /\ nodes_generated' = nodes_generated + Len(ch)
                                    /\ \E args \in {<<ns, ch, rest,
                                                       DictDel(frontier_states,
                                                               nodes[node].state), ex>>} :
                                         \E r \in AStarChildren(args[1], args[2], 1,
                                                       args[3], args[4], args[5]) :
                                           /\ frontier' = r[1]
                                           /\ frontier_states' = r[2]
                                    /\ UNCHANGED <<pc, ret>>
    /\ UNCHANGED <<inputs, depth_limit, bidi, idsv>>

\* ------------------------------------------------------------- DFS / DLS
\* children pushed without frontier_states.add (faulty variant)
RECURSIVE StackChildrenNoAdd(_, _, _, _, _, _)
StackChildrenNoAdd(ns, ch, i, fr, fs, ex) ==
    IF i > Len(ch) THEN <<fr, fs>>
    ELSE IF ns[ch[i]].state \notin ex /\ ns[ch[i]].state \notin fs
         THEN StackChildrenNoAdd(ns, ch, i + 1, Append(fr, ch[i]), fs, ex)
         ELSE StackChildrenNoAdd(ns, ch, i + 1, fr, fs, ex)

\* uninformed.py 314-318 / 413-417: the loop over the (reversed) children
RECURSIVE StackChildren(_, _, _, _, _, _)
StackChildren(ns, ch, i, fr, fs, ex) ==
    IF i > Len(ch) THEN <<fr, fs>>
    ELSE IF ns[ch[i]].state \notin ex /\ ns[ch[i]].state \notin fs
         THEN StackChildren(ns, ch, i + 1, Append(fr, ch[i]), fs \cup {ns[ch[i]].state}, ex)
         ELSE StackChildren(ns, ch, i + 1, fr, fs, ex)

DfsCall ==
    /\ pc = "call" /\ alg = "dfs"
    /\ nodes_expanded' = 0 /\ nodes_generated' = 1 /\ max_frontier_size' = 1
    /\ IF start = goal
       THEN /\ ret' = Trivial("dfs", start, 0, 1, 1)
            /\ pc' = "done"
            /\ UNCHANGED <<nodes, single, steps>>
       ELSE /\ nodes' = <<RootNode(start)>>
            /\ frontier' = <<1>>
            /\ frontier_states' = {start}
            /\ explored' = {}
            /\ steps' = <<>>
            /\ pc' = "loop"
            /\ UNCHANGED ret
    /\ UNCHANGED <<inputs, depth_limit, bidi, idsv>>

DfsStep ==
    /\ pc = "loop" /\ alg = "dfs"
    /\ IF frontier = <<>>
       THEN /\ ret' = Record("dfs", <<>>, 0, nodes_expanded, nodes_generated,
                             max_frontier_size, steps)
            /\ pc' = "done"
            /\ UNCHANGED <<nodes, single, steps, metric>>
       ELSE LET mfs  == Max(max_frontier_size, Len(frontier))
                snap == Append(steps, Snapshot(StatesOf(nodes, frontier), explored))
                node == frontier[Len(frontier)]
                rest == SubSeq(frontier, 1, Len(frontier) - 1)
                ne   == nodes_expanded + 1
                st   == SetCurrent(snap, nodes[node].state)
            IN  /\ max_frontier_size' = mfs
                /\ IF nodes[node].state \notin frontier_states
                   THEN \* frontier_states.remove raises KeyError
                        /\ pc' = "raised"
                        /\ frontier' = rest
                        /\ steps' = snap
                        /\ UNCHANGED <<nodes, frontier_states, explored, nodes_expanded,
                                       nodes_generated, ret>>
                   ELSE /\ nodes_expanded' = ne
                        /\ steps' = st
                        /\ IF nodes[node].state = goal
                           THEN /\ ret' = Record("dfs", Path(nodes, node),
                                                 nodes[node].path_cost, ne,
                                                 nodes_generated, mfs, st)
                                /\ pc' = "done"
                                /\ frontier' = rest
                                /\ frontier_states' = frontier_states \ {nodes[node].state}
                                /\ UNCHANGED <<nodes, explored, nodes_generated>>
                           ELSE LET ex == explored \cup {nodes[node].state}
                                    ns == nodes \o Expand(nodes, node, graph)
                                    ch == Reverse(ChildRefs(nodes, node, graph))
                                    r  == StackChildren(ns, ch, 1, rest,
                                              frontier_states \ {nodes[node].state}, ex)
                                IN  /\ explored' = ex
                                    /\ nodes' = ns
                                    /\ nodes_generated' = nodes_generated + Len(ch)
                                    /\ frontier' = r[1]
                                    /\ frontier_states' = r[2]
                                    /\ UNCHANGED <<pc, ret>>
    /\ UNCHANGED <<inputs, depth_limit, bidi, idsv>>

\* depth_limited_search up to the loop: the metrics, the short circuit, the root
DlsEnter(limit) ==
    /\ depth_limit' = limit
    /\ nodes_expanded' = 0 /\ nodes_generated' = 1 /\ max_frontier_size' = 1
    /\ IF start = goal
       THEN /\ IF alg = "dls"
               THEN ret' = Trivial("dls", start, 0, 1, 1) /\ pc' = "done"
                    /\ UNCHANGED result
               ELSE result' = Trivial("dls", start, 0, 1, 1)
                    /\ pc' = "ids_acc" /\ UNCHANGED ret
            /\ UNCHANGED <<nodes, single, steps>>
       ELSE /\ nodes' = <<RootNode(start)>>
            /\ frontier' = <<1>>
            /\ frontier_states' = {start}
            /\ explored' = {}
            /\ steps' = <<>>
            /\ pc' = "loop"
            /\ UNCHANGED <<ret, result>>

DlsCall ==
    /\ pc = "call" /\ alg = "dls"
    /\ DlsEnter(depth_limit)
    /\ UNCHANGED <<inputs, bidi, idsacc>>

\* a return that stores the record and stays in the loop (faulty variant)
DlsReturnKeepsLooping(rec) ==
    IF alg = "dls"
    THEN ret' = rec /\ pc' = "loop" /\ UNCHANGED result
    ELSE result' = rec /\ pc' = "ids_acc" /\ UNCHANGED ret

\* the return statement of depth_limited_search: to the caller, or to IDS
DlsReturn(rec) ==
    IF alg = "dls"
    THEN ret' = rec /\ pc' = "done" /\ UNCHANGED result
    ELSE result' = rec /\ pc' = "ids_acc" /\ UNCHANGED ret

\* expansion at the limit too (faulty variant)
BelowLimitInclusive(d, limit) == d <= limit

\* uninformed.py 408: children are generated only below the limit
BelowLimit(d, limit) == d < limit

DlsStep ==
    /\ pc = "loop" /\ alg \in {"dls", "ids"}
    /\ IF frontier = <<>>
       THEN /\ DlsReturn(Record("dls", <<>>, 0, nodes_expanded, nodes_generated,
                                max_frontier_size, steps))
            /\ UNCHANGED <<nodes, single, steps, metric>>
       ELSE LET mfs  == Max(max_frontier_size, Len(frontier))
                snap == Append(steps, Snapshot(StatesOf(nodes, frontier), explored))
                node == frontier[Len(frontier)]
                rest == SubSeq(frontier, 1, Len(frontier) - 1)
                ne   == nodes_expanded + 1
                st   == SetCurrent(snap, nodes[node].state)
            IN  /\ max_frontier_size' = mfs
                /\ IF nodes[node].state \notin frontier_states
                   THEN \* frontier_states.remove raises KeyError
                        /\ pc' = "raised"
                        /\ frontier' = rest
                        /\ steps' = snap
                        /\ UNCHANGED <<nodes, frontier_states, explored, nodes_expanded,
                                       nodes_generated, ret, result>>
                   ELSE /\ nodes_expanded' = ne
                        /\ steps' = st
                        /\ IF nodes[node].state = goal
                           THEN /\ DlsReturn(Record("dls", Path(nodes, node),
                                                    nodes[node].path_cost, ne,
                                                    nodes_generated, mfs, st))
                                /\ frontier' = rest
                                /\ frontier_states' = frontier_states \ {nodes[node].state}
                                /\ UNCHANGED <<nodes, explored, nodes_generated>>
                           ELSE LET ex == explored \cup {nodes[node].state}
                                    fs == frontier_states \ {nodes[node].state}
                                IN  /\ explored' = ex
                                    /\ IF BelowLimit(nodes[node].depth, depth_limit)
                                       THEN LET ns == nodes \o Expand(nodes, node, graph)
                                                ch == Reverse(ChildRefs(nodes, node, graph))
                                                r  == StackChildren(ns, ch, 1, rest, fs, ex)
                                            IN  /\ nodes' = ns
                                                /\ nodes_generated' =
                                                       nodes_generated + Len(ch)
                                                /\ frontier' = r[1]
                                                /\ frontier_states' = r[2]
                                       ELSE /\ frontier' = rest
                                            /\ frontier_states' = fs
                                            /\ UNCHANGED <<nodes, nodes_generated>>
                                    /\ UNCHANGED <<pc, ret, result>>
    /\ UNCHANGED <<inputs, depth_limit, bidi, idsacc>>

\* ------------------------------------------------------------------- IDS
IdsCall ==
    /\ pc = "call" /\ alg = "ids"
    /\ total_nodes_expanded' = 0 /\ total_nodes_generated' = 0
    /\ ids_max_frontier_size' = 0 /\ all_steps' = <<>>
    /\ IF start = goal
       THEN /\ ret' = Trivial("ids", start, 1, 1, 1)
            /\ pc' = "done"
            /\ UNCHANGED depth
       ELSE /\ depth' = 0
            /\ pc' = "ids_for"
            /\ UNCHANGED ret
    /\ UNCHANGED <<inputs, depth_limit, nodes, single, steps, metric, bidi, result>>

\* a for loop that runs the limit max_depth as well (faulty variant)
IdsForOneMore ==
    /\ pc = "ids_for" /\ alg = "ids"
    /\ IF depth <= max_depth
       THEN DlsEnter(depth)
       ELSE /\ ret' = Record("ids", <<>>, 0, total_nodes_expanded, total_nodes_generated,
                             ids_max_frontier_size, all_steps)
            /\ pc' = "done"
            /\ UNCHANGED <<depth_limit, nodes, single, steps, metric, result>>
    /\ UNCHANGED <<inputs, bidi, idsacc>>

\* uninformed.py 467-469: the head of the for loop and the call of DLS, or the
\* return after the last iteration
IdsFor ==
    /\ pc = "ids_for" /\ alg = "ids"
    /\ IF depth < max_depth
       THEN DlsEnter(depth)
       ELSE /\ ret' = Record("ids", <<>>, 0, total_nodes_expanded, total_nodes_generated,
                             ids_max_frontier_size, all_steps)
            /\ pc' = "done"
            /\ UNCHANGED <<depth_limit, nodes, single, steps, metric, result>>
    /\ UNCHANGED <<inputs, bidi, idsacc>>

\* a tag one above the limit of the iteration (faulty variant)
TagStepNext(step, d) ==
    [frontier |-> step.frontier, explored |-> step.explored, current |-> step.current,
     depth_limit |-> d + 1]

\* uninformed.py 477-478: step["depth_limit"] = depth
TagStep(step, d) ==
    [frontier |-> step.frontier, explored |-> step.explored, current |-> step.current,
     depth_limit |-> d]

\* uninformed.py 471-493: the rest of the loop body, after DLS has returned
IdsAcc ==
    /\ pc = "ids_acc" /\ alg = "ids"
    /\ LET tne == total_nodes_expanded + result.nodes_expanded
           tng == total_nodes_generated + result.nodes_generated
           mfs == Max(ids_max_frontier_size, result.max_frontier_size)
           als == all_steps \o [i \in 1..Len(result.steps) |->
                                   TagStep(result.steps[i], depth)]
       IN  /\ total_nodes_expanded' = tne
           /\ total_nodes_generated' = tng
           /\ ids_max_frontier_size' = mfs
           /\ all_steps' = als
           /\ IF result.path # <<>>
              THEN /\ ret' = Record("ids", result.path, result.distance, tne, tng, mfs, als)
                   /\ pc' = "done"
                   /\ UNCHANGED depth
              ELSE /\ depth' = depth + 1
                   /\ pc' = "ids_for"
                   /\ UNCHANGED ret
    /\ UNCHANGED <<inputs, depth_limit, nodes, single, steps, metric, bidi, result>>

\* --------------------------------------------------------- bidirectional
\* an insertion-ordered dict state -> Node, as the sequence of its items
\* a membership test that never finds the key (faulty variant)
SeqDictHasNever(d, k) == FALSE

SeqDictHas(d, k) == \E i \in 1..Len(d) : d[i][1] = k
SeqDictGet(d, k) == LET i == CHOOSE j \in 1..Len(d) : d[j][1] = k IN d[i][2]
SeqDictSet(d, k, v) ==
    IF SeqDictHas(d, k)
    THEN [i \in 1..Len(d) |-> IF d[i][1] = k THEN <<k, v>> ELSE d[i]]
    ELSE Append(d, <<k, v>>)
SeqDictKeys(d) == [i \in 1..Len(d) |-> d[i][1]]

\* the order in which the keys of the graph dict were inserted
KeyOrder(g) ==
    IF DOMAIN g = Locs3 THEN Order3
    ELSE IF DOMAIN g = Locs4 THEN Order4
    ELSE IF DOMAIN g = Locs5 THEN Order5
    ELSE <<"A", "B", "C">>

\* the backward search on the forward graph (faulty variant)
ReverseGraphSame(g) == g

\* uninformed.py 553-559: reverse_graph[neighbor][city] = graph[city][neighbor],
\* filled city by city
ReverseGraph(g) ==
    [n \in DOMAIN g |->
        LET cs == SelectSeq(KeyOrder(g), LAMBDA c : HasEdge(g, c, n))
        IN  [i \in 1..Len(cs) |-> <<cs[i], Weight(g, cs[i], n)>>]]

BidiSnapshot(ns, ff, bf, fe, be) ==
    [forward_frontier |-> StatesOf(ns, ff), backward_frontier |-> StatesOf(ns, bf),
     forward_explored |-> SeqDictKeys(fe), backward_explored |-> SeqDictKeys(be),
     current_forward |-> "None", current_backward |-> "None"]

\* the joined path with the meeting state twice (faulty variant)
JoinPathKeepMeeting(ns, fwd, bwd) == Path(ns, fwd) \o Reverse(Path(ns, bwd))

\* uninformed.py 586-594 / 626-634: the joined path and its distance
JoinPath(ns, fwd, bwd) == Path(ns, fwd) \o Tail(Reverse(Path(ns, bwd)))

JoinDistance(ns, fwd, bwd) == ns[fwd].path_cost + ns[bwd].path_cost

BidiCall ==
    /\ pc = "call" /\ alg = "bidirectional"
    /\ nodes_expanded' = 0 /\ nodes_generated' = 2 /\ max_frontier_size' = 2
    /\ IF start = goal
       THEN /\ ret' = Trivial("bidirectional", start, 0, 2, 2)
            /\ pc' = "done"
            /\ UNCHANGED <<nodes, steps, bidi>>
       ELSE /\ nodes' = <<RootNode(start), RootNode(goal)>>
            /\ forward_frontier' = <<1>>
            /\ forward_explored' = <<>>
            /\ backward_frontier' = <<2>>
            /\ backward_explored' = <<>>
            /\ steps' = <<>>
            /\ reverse_graph' = ReverseGraph(graph)
            /\ pc' = "loop"
            /\ UNCHANGED ret
    /\ UNCHANGED <<inputs, depth_limit, single, idsv>>

BidiStep ==
    /\ pc = "loop" /\ alg = "bidirectional"
    /\ IF forward_frontier = <<>> \/ backward_frontier = <<>>
       THEN /\ ret' = Record("bidirectional", <<>>, 0, nodes_expanded, nodes_generated,
                             max_frontier_size, steps)
            /\ pc' = "done"
            /\ UNCHANGED <<nodes, steps, metric, forward_frontier, backward_frontier,
                           forward_explored, backward_explored>>
       ELSE LET mfs  == Max(max_frontier_size,
                            Len(forward_frontier) + Len(backward_frontier))
                snap == Append(steps, BidiSnapshot(nodes, forward_frontier,
                                   backward_frontier, forward_explored, backward_explored))
                \* forward half
                fnode == Head(forward_frontier)
                ff1   == Tail(forward_frontier)
                ne1   == nodes_expanded + 1
                st1   == [snap EXCEPT ![Len(snap)].current_forward = nodes[fnode].state]
                fe1   == SeqDictSet(forward_explored, nodes[fnode].state, fnode)
            IN  /\ max_frontier_size' = mfs
                /\ forward_explored' = fe1
                /\ IF SeqDictHas(backward_explored, nodes[fnode].state)
                   THEN LET bnode == SeqDictGet(backward_explored, nodes[fnode].state)
                        IN  /\ ret' = Record("bidirectional", JoinPath(nodes, fnode, bnode),
                                             JoinDistance(nodes, fnode, bnode), ne1,
                                             nodes_generated, mfs, st1)
                            /\ pc' = "done"
                            /\ steps' = st1
                            /\ nodes_expanded' = ne1
                            /\ forward_frontier' = ff1
                            /\ UNCHANGED <<nodes, nodes_generated, backward_frontier,
                                           backward_explored>>
                   ELSE LET ns1 == nodes \o Expand(nodes, fnode, graph)
                            ch1 == ChildRefs(nodes, fnode, graph)
                            ng1 == nodes_generated + Len(ch1)
                            ff2 == BfsChildren(ns1, ch1, 1, ff1, Range(SeqDictKeys(fe1)))
                            \* backward half
                            bnode == Head(backward_frontier)
                            bf1   == Tail(backward_frontier)
                            ne2   == ne1 + 1
                            st2   == [st1 EXCEPT
                                         ![Len(st1)].current_backward = ns1[bnode].state]
                            be1   == SeqDictSet(backward_explored, ns1[bnode].state, bnode)
                        IN  /\ forward_frontier' = ff2
                            /\ backward_explored' = be1
                            /\ nodes_expanded' = ne2
                            /\ steps' = st2
                            /\ IF SeqDictHas(fe1, ns1[bnode].state)
                               THEN LET fmeet == SeqDictGet(fe1, ns1[bnode].state)
                                    IN  /\ ret' = Record("bidirectional",
                                                      JoinPath(ns1, fmeet, bnode),
                                                      JoinDistance(ns1, fmeet, bnode),
                                                      ne2, ng1, mfs, st2)
                                        /\ pc' = "done"
                                        /\ nodes' = ns1
                                        /\ nodes_generated' = ng1
                                        /\ backward_frontier' = bf1
                               ELSE LET ns2 == ns1 \o Expand(ns1, bnode, reverse_graph)
                                        ch2 == ChildRefs(ns1, bnode, reverse_graph)
                                    IN  /\ nodes' = ns2
                                        /\ nodes_generated' = ng1 + Len(ch2)
                                        /\ backward_frontier' =
                                               BfsChildren(ns2, ch2, 1, bf1,
                                                           Range(SeqDictKeys(be1)))
                                        /\ UNCHANGED <<pc, ret>>
    /\ UNCHANGED <<inputs, depth_limit, single, idsv, reverse_graph>>

\* ------------------------------------------------------------------ Next
Next ==
    \/ BfsCall \/ BfsStep
    \/ UcsCall \/ UcsStep
    \/ DfsCall \/ DfsStep
    \/ DlsCall \/ DlsStep
    \/ IdsCall \/ IdsFor \/ IdsAcc
    \/ BidiCall \/ BidiStep
    \/ GreedyCall \/ GreedyStep
    \/ AStarCall \/ AStarStep

Spec == Init /\ [][Next]_vars

NextCost == UcsCall \/ UcsStep \/ AStarCall \/ AStarStep

SpecCost == InitCost /\ [][NextCost]_vars

NextHops == BfsCall \/ BfsStep

SpecHops == InitHops /\ [][NextHops]_vars

NextMeet == BidiCall \/ BidiStep

SpecMeet == InitMeet /\ [][NextMeet]_vars

NextDeep == DfsCall \/ DfsStep \/ DlsCall \/ DlsStep \/ IdsCall \/ IdsFor \/ IdsAcc

SpecDeep == InitDeep /\ [][NextDeep]_vars

\* an algorithm call runs to completion: no iteration is postponed forever
\* (single-threaded, synchronous execution)
FairSpec == Spec /\ WF_vars(Next)

\* ================================================================ claims
Done == pc = "done"

Last(p) == p[Len(p)]

EdgesOf(p, g) == \A i \in 1..(Len(p) - 1) : HasEdge(g, p[i], p[i + 1])

\* C1: whenever any of the eight algorithms returns a non-empty path, the path
\* starts at start, ends at goal, every consecutive pair is an edge of the
\* graph, and the returned distance is the sum of the weights of those edges.
C1_PathValid ==
    (Done /\ ret.path # <<>>) =>
        /\ ret.path[1] = start
        /\ Last(ret.path) = goal
        /\ EdgesOf(ret.path, graph)
        /\ ret.distance = calculate_path_cost(ret.path, graph)

\* a path of two edges with a positive distance was returned
C1_Witness ==
    /\ Done /\ Len(ret.path) = 3 /\ ret.distance > 0
    /\ ret.distance = calculate_path_cost(ret.path, graph)

\* C2: with non-negative weights, start # goal and the goal reachable,
\* uniform_cost_search returns the true shortest-path distance.
C2_UcsOptimal ==
    (Done /\ alg = "ucs" /\ start # goal /\ Reachable(graph, start, goal)) =>
        ret.distance = Dist(graph, start, goal)

\* UCS returned a path of three edges although start and goal are adjacent
C2_Witness ==
    /\ Done /\ alg = "ucs" /\ Len(ret.path) = 4 /\ HasEdge(graph, start, goal)
    /\ ret.distance = Dist(graph, start, goal)
    /\ ret.distance < Weight(graph, start, goal)

C4_ReachableIffPath ==
    /\ pc # "raised"
    /\ (Done /\ start # goal) =>
          /\ ~Reachable(graph, start, goal) => (ret.path = <<>> /\ ret.distance = 0)
          /\ (Reachable(graph, start, goal) /\ alg \notin {"dls", "ids"}) =>
                 ret.path # <<>>

\* a search that expanded two nodes and more ended without a path
C4_Witness ==
    /\ Done /\ start # goal /\ ~Reachable(graph, start, goal)
    /\ alg = "bidirectional" /\ ret.nodes_expanded >= 2 /\ ret.path = <<>>

\* C5: every call of every algorithm eventually returns a result record.
C5_Terminates == <>Done

\* a search on a graph with a zero-weight cycle through start returned without a path
C5_Witness ==
    /\ Done /\ start # goal /\ ret.path = <<>> /\ ret.nodes_expanded >= 2
    /\ \E v \in DOMAIN graph :
           /\ HasEdge(graph, start, v) /\ HasEdge(graph, v, start)
           /\ Weight(graph, start, v) = 0 /\ Weight(graph, v, start) = 0

\* C6: a call with start == goal returns path = [start], distance = 0 and an
\* empty trace, and no loop iteration is executed (no node is created, nothing
\* is expanded, the call returns in its first step).
C6_StartIsGoal ==
    (start = goal) =>
        /\ pc \in {"call", "done"}
        /\ nodes = <<>> /\ steps = <<>> /\ all_steps = <<>>
        /\ Done => (ret.path = <<start>> /\ ret.distance = 0 /\ ret.steps = <<>>)

\* a call with start == goal has returned
C6_Witness == Done /\ start = goal /\ ret.path = <<start>> /\ alg = "astar"

UninformedAlgorithms == {"bfs", "ucs", "dfs", "dls", "ids", "bidirectional"}

\* C7 as stated: each of the six uninformed algorithms returns
\* nodes_generated = 1 and nodes_expanded = 0 when start == goal.
C7_OneGeneratedNoneExpanded ==
    (Done /\ start = goal /\ alg \in UninformedAlgorithms) =>
        (ret.nodes_generated = 1 /\ ret.nodes_expanded = 0)

\* C7 amended: when start == goal, BFS, UCS, DFS and DLS return
\* nodes_generated = 1 and nodes_expanded = 0, IDS returns nodes_generated = 1
\* and nodes_expanded = 1, and bidirectional search returns nodes_generated = 2
\* and nodes_expanded = 0.
C7_TrivialMetrics ==
    (Done /\ start = goal /\ alg \in UninformedAlgorithms) =>
        /\ ret.nodes_generated = (IF alg = "bidirectional" THEN 2 ELSE 1)
        /\ ret.nodes_expanded = (IF alg = "ids" THEN 1 ELSE 0)

\* iterative deepening has returned from a call with start == goal
C7_Witness == Done /\ start = goal /\ alg = "ids" /\ ret.nodes_expanded = 1

Scenario(a) == graph = ScenarioGraph /\ start = "A" /\ goal = "C" /\ alg = a

\* C8 as stated: on A-B(1), B-C(2), A-C(5) from A to C, breadth_first_search
\* returns path = [A, B, C] and distance = 3.
C8_BfsViaB ==
    (Done /\ Scenario("bfs")) => (ret.path = <<"A", "B", "C">> /\ ret.distance = 3)

\* C8 amended: on A-B(1), B-C(2), A-C(5) from A to C, breadth_first_search
\* returns the fewest-edge path, path = [A, C], and distance = 5.
C8_BfsDirect ==
    (Done /\ Scenario("bfs")) => (ret.path = <<"A", "C">> /\ ret.distance = 5)

\* BFS has returned on the scenario after popping A, B and C
C8_Witness == Done /\ Scenario("bfs") /\ ret.nodes_expanded = 3

ZeroTable == [x \in LocsABC |-> 0]

\* C9: on A-B(1), B-C(2), A-C(5) from A to C, uniform_cost_search and
\* a_star_search with a zero heuristic return path = [A, B, C], distance = 3.
C9_CostAwareViaB ==
    (Done /\ (Scenario("ucs") \/ (Scenario("astar") /\ heuristic_data = ZeroTable))) =>
        (ret.path = <<"A", "B", "C">> /\ ret.distance = 3)

\* A* with the zero table has returned on the scenario
C9_Witness ==
    /\ Done /\ Scenario("astar") /\ heuristic_data = ZeroTable
    /\ ret.nodes_expanded = 3

\* the state at which the two searches met: the only one in both explored maps
Meeting ==
    CHOOSE m \in DOMAIN graph :
        SeqDictHas(forward_explored, m) /\ SeqDictHas(backward_explored, m)

\* C10: whenever bidirectional_search returns a path from a call with
\* start # goal, its distance is at least the true shortest distance, the path
\* is the forward path of the meeting state followed by its reversed backward
\* path with the meeting state exactly once, every consecutive pair is an edge
\* of the input graph, and the distance is the sum of the two path costs.
C10_BidiJoin ==
    (Done /\ alg = "bidirectional" /\ start # goal /\ ret.path # <<>>) =>
        /\ \E m \in DOMAIN graph :
               SeqDictHas(forward_explored, m) /\ SeqDictHas(backward_explored, m)
        /\ LET fwd == SeqDictGet(forward_explored, Meeting)
               bwd == SeqDictGet(backward_explored, Meeting)
               k   == Len(Path(nodes, fwd))
           IN  /\ Len(ret.path) = k + Len(Path(nodes, bwd)) - 1
               /\ SubSeq(ret.path, 1, k) = Path(nodes, fwd)
               /\ SubSeq(ret.path, k, Len(ret.path)) = Reverse(Path(nodes, bwd))
               /\ Cardinality({i \in 1..Len(ret.path) : ret.path[i] = Meeting}) = 1
               /\ ret.distance = nodes[fwd].path_cost + nodes[bwd].path_cost
        /\ EdgesOf(ret.path, graph)
        /\ ret.distance >= Dist(graph, start, goal)

\* the searches met at an inner state and the joined path is not a shortest one
C10_Witness ==
    /\ Done /\ alg = "bidirectional" /\ Len(ret.path) = 3
    /\ Meeting = ret.path[2]
    /\ ret.distance > Dist(graph, start, goal)

\* C11: whenever breadth_first_search returns from a call with a reachable
\* goal, the returned path has the least number of edges of all paths from
\* start to goal.
C11_BfsFewestEdges ==
    (Done /\ alg = "bfs" /\ MinHops(graph, start, goal) >= 0) =>
        /\ ret.path # <<>>
        /\ Len(ret.path) - 1 = MinHops(graph, start, goal)

\* BFS popped all five states and returned a path of two edges, the goal being
\* also reachable over three edges through the first neighbor of start
C11_Witness ==
    /\ Done /\ alg = "bfs" /\ Len(ret.path) = 3 /\ ret.nodes_expanded = 5
    /\ MinHops(graph, start, goal) = 2
    /\ LET b == graph[start][1][1]
       IN  /\ b # ret.path[2]
           /\ \E d \in DOMAIN graph \ {start, goal, b, ret.path[2]} :
                  HasEdge(graph, b, d) /\ HasEdge(graph, d, goal)

\* the states reachable from s, and the states from which t is reachable
ReachSet(g, s) == {t \in DOMAIN g : Reachable(g, s, t)}
CoReachSet(g, t) == {s \in DOMAIN g : Reachable(g, s, t)}

CompleteAlgorithms == {"bfs", "dfs", "ucs", "greedy", "astar", "bidirectional"}

\* the states popped so far, read off the trace
PoppedStates ==
    IF alg = "bidirectional"
    THEN SelectSeq([i \in 1..(2 * Len(steps)) |->
                       IF i % 2 = 1 THEN steps[(i + 1) \div 2].current_forward
                       ELSE steps[i \div 2].current_backward],
                   LAMBDA c : c # "None")
    ELSE [i \in 1..Len(steps) |-> steps[i].current]

Distinct(q) == \A i, j \in 1..Len(q) : i # j => q[i] # q[j]

\* C12 as stated: when the goal is unreachable, BFS, DFS, UCS, greedy, A* and
\* bidirectional search return with nodes_expanded at most the number of
\* states reachable from start.
C12_WithinStartComponent ==
    (Done /\ alg \in CompleteAlgorithms /\ ~Reachable(graph, start, goal)) =>
        ret.nodes_expanded <= Cardinality(ReachSet(graph, start))

\* C12 amended: when the goal is unreachable, no state is popped more than
\* once; BFS, DFS, UCS, greedy and A* never count more expansions than there
\* are states reachable from start, and bidirectional search, which counts the
\* pops of both directions, never more than that number plus the number of
\* states from which the goal is reachable.
C12_ExpansionsBounded ==
    (alg \in CompleteAlgorithms /\ pc \in {"loop", "done"}
         /\ ~Reachable(graph, start, goal)) =>
        /\ Distinct(PoppedStates)
        /\ nodes_expanded = Len(PoppedStates)
        /\ nodes_expanded <= Cardinality(ReachSet(graph, start))
               + (IF alg = "bidirectional" THEN Cardinality(CoReachSet(graph, goal)) ELSE 0)
        /\ Done => ret.nodes_expanded = nodes_expanded

\* bidirectional search gave up after more pops than start reaches states
C12_Witness ==
    /\ Done /\ alg = "bidirectional" /\ ~Reachable(graph, start, goal)
    /\ ret.path = <<>>
    /\ ret.nodes_expanded > Cardinality(ReachSet(graph, start))

\* C13: at every point of every run and in every returned record
\* nodes_generated >= nodes_expanded (also for the totals of IDS and the
\* record of its depth-limited call, and also after the pop that the next
\* iteration starts with), and every returned record of a run that went
\* through a loop iteration (its frontier was non-empty) has
\* max_frontier_size >= 1.
C13_MetricsOrdered ==
    /\ nodes_generated >= nodes_expanded
    /\ total_nodes_generated >= total_nodes_expanded
    /\ result.nodes_generated >= result.nodes_expanded
    /\ ret.nodes_generated >= ret.nodes_expanded
    /\ (pc = "loop" /\ alg # "bidirectional" /\ frontier # <<>>) =>
           nodes_generated >= nodes_expanded + 1
    /\ (pc = "loop" /\ alg = "bidirectional"
           /\ forward_frontier # <<>> /\ backward_frontier # <<>>) =>
           nodes_generated >= nodes_expanded + 2
    /\ (Done /\ ret.steps # <<>>) => ret.max_frontier_size >= 1

\* iterative deepening returned after three depth-limited searches that each
\* popped the root only: as many nodes expanded as generated
C13_Witness ==
    /\ Done /\ alg = "ids" /\ Len(ret.steps) = 3
    /\ ret.nodes_expanded = 3 /\ ret.nodes_generated = 3
    /\ ret.max_frontier_size = 1

\* C14: two runs of a_star_search on the same graph, start, goal and table
\* produce the same trace: whatever the ids of the nodes are, an iteration
\* leaves the frontier list, which the next snapshot records and the next pop
\* reads, in one and the same order of states.
C14_AStarDeterministic ==
    [][(alg = "astar" /\ pc = "loop" /\ pc' = "loop") =>
          \A r \in AStarOutcomes :
              HeapStates(nodes', r[1]) = HeapStates(nodes', frontier')]_vars

\* what get_heuristic returned for the node of a frontier entry of greedy
\* search (the key) or of A* (the key less the node's path cost)
ReturnedHeuristic(e) == IF alg = "greedy" THEN e.key ELSE e.key - nodes[e.node].path_cost

\* C15: get_heuristic(state, goal, table) returns table[state] when the goal
\* is the designated target and the state is a key of the table, and 0 when
\* the goal is another one or the state is missing from the table (no lookup
\* of a missing key is made): seen on the key of every frontier entry of
\* greedy search and A*.
C15_HeuristicLookup ==
    (alg \in {"greedy", "astar"} /\ pc = "loop") =>
        \A i \in 1..Len(frontier) :
            LET s == nodes[frontier[i].node].state
                h == ReturnedHeuristic(frontier[i])
            IN  /\ (goal = Designated /\ s \in DOMAIN heuristic_data) => h = heuristic_data[s]
                /\ (goal # Designated) => h = 0
                /\ (s \notin DOMAIN heuristic_data) => h = 0

\* towards the designated target, the frontier of A* holds a node of a state
\* missing from the table (heuristic 0) and a node with a positive table value
C15_Witness ==
    /\ alg = "astar" /\ pc = "loop" /\ goal = Designated
    /\ \E i, j \in 1..Len(frontier) :
           /\ nodes[frontier[i].node].state \notin DOMAIN heuristic_data
           /\ ReturnedHeuristic(frontier[i]) = 0
           /\ nodes[frontier[j].node].state \in DOMAIN heuristic_data
           /\ ReturnedHeuristic(frontier[j]) > 0

PopAlgorithms == {"bfs", "dfs", "ucs", "dls", "greedy", "astar"}

HeapAlgorithms == {"ucs", "greedy", "astar"}

\* the Node references held by a frontier, and its states in list order
FrontierNodes(fr) ==
    {IF alg \in HeapAlgorithms THEN fr[i].node ELSE fr[i] : i \in 1..Len(fr)}

FrontierStates(ns, fr) ==
    IF alg \in HeapAlgorithms THEN HeapStates(ns, fr) ELSE StatesOf(ns, fr)

\* C16: in BFS, DFS, UCS, DLS, greedy and A* a path is returned only by an
\* iteration that pops a node whose state is the goal: that iteration
\* generates nothing, its snapshot (the last one of the returned trace) lists
\* the goal in the frontier and has current = goal, and the returned path and
\* distance are those of the popped node; an iteration that inserts a node of
\* the goal state into the frontier does not end the search.
C16_GoalTestOnPop ==
    [][(alg \in PopAlgorithms /\ pc = "loop") =>
          /\ (pc' = "done" /\ ret'.path # <<>>) =>
                 /\ nodes' = nodes
                 /\ nodes_expanded' = nodes_expanded + 1
                 /\ Len(steps') = Len(steps) + 1
                 /\ ret'.steps = steps'
                 /\ Last(steps').frontier = FrontierStates(nodes, frontier)
                 /\ goal \in Range(Last(steps').frontier)
                 /\ Last(steps').current = goal
                 /\ \E n \in FrontierNodes(frontier) \ FrontierNodes(frontier') :
                        /\ nodes[n].state = goal
                        /\ ret'.path = Path(nodes, n)
                        /\ ret'.distance = nodes[n].path_cost
          /\ (\E n \in FrontierNodes(frontier') \ FrontierNodes(frontier) :
                  nodes'[n].state = goal) => pc' = "loop"]_vars

\* UCS generated the goal in its first iteration, replaced that node by a
\* cheaper one in the second and returned the cheaper one in the third
C16_Witness ==
    /\ Done /\ alg = "ucs" /\ Len(ret.steps) = 3
    /\ goal \in Range(ret.steps[2].frontier)
    /\ ret.steps[3].current = goal
    /\ \E m, n \in 1..Len(nodes) :
           /\ m < n /\ nodes[m].state = goal /\ nodes[n].state = goal
           /\ nodes[n].path_cost < nodes[m].path_cost
           /\ ret.distance = nodes[n].path_cost /\ ret.path = Path(nodes, n)

\* the number of neighbors of the states of S, added up
RECURSIVE NeighborCount(_, _)
NeighborCount(g, S) ==
    IF S = {} THEN 0
    ELSE LET s == CHOOSE x \in S : TRUE
         IN  Len(g[s]) + NeighborCount(g, S \ {s})

\* C17 as stated: a child is counted as generated only when it is inserted
\* into the frontier, so nodes_generated = 1 + the number of children inserted
\* so far.  In BFS, DFS, DLS and greedy search an inserted node leaves the
\* frontier only by being popped, so the root and the inserted children are
\* the popped nodes and the nodes in the frontier.
C17_CountsInsertedOnly ==
    (alg \in {"bfs", "dfs", "dls", "greedy"} /\ pc = "loop") =>
        nodes_generated = nodes_expanded + Len(frontier)

\* C17 amended: every child that expand returns is counted as generated,
\* inserted or not: at any point of a single-direction search nodes_generated
\* is 1 + the number of Node objects that expand has made so far (in BFS, UCS,
\* DFS, greedy and A*: 1 + the neighbor counts of the explored states), which
\* is at least the number of the popped nodes and the nodes in the frontier.
C17_CountsEveryChild ==
    (alg \in PopAlgorithms /\ pc \in {"loop", "done"} /\ start # goal) =>
        /\ nodes_generated = Len(nodes)
        /\ (alg # "dls") => nodes_generated = 1 + NeighborCount(graph, explored)
        /\ nodes_generated >= nodes_expanded + Len(frontier)
        /\ Done => ret.nodes_generated = nodes_generated

\* BFS has generated more children than it has inserted into the frontier
C17_Witness ==
    /\ alg = "bfs" /\ pc = "loop" /\ frontier # <<>>
    /\ nodes_generated = Len(nodes)
    /\ nodes_generated > nodes_expanded + Len(frontier)

\* no state twice in the sequence q, and none of them in the set ex
OneEntryPerState(q, ex) == Distinct(q) /\ Range(q) \cap ex = {}

\* C18: at the start of every loop iteration of BFS, DFS, UCS, DLS (also under
\* IDS), greedy and A*, and for each direction of bidirectional search, no two
\* frontier entries carry the same state and no frontier state is explored.
C18_FrontierUnique ==
    (pc = "loop") =>
        IF alg = "bidirectional"
        THEN /\ OneEntryPerState(StatesOf(nodes, forward_frontier),
                                  Range(SeqDictKeys(forward_explored)))
             /\ OneEntryPerState(StatesOf(nodes, backward_frontier),
                                  Range(SeqDictKeys(backward_explored)))
        ELSE OneEntryPerState(FrontierStates(nodes, frontier), explored)

\* a child was refused because its state was in the frontier already: the
\* frontier of BFS holds an older node of that state
C18_Witness ==
    /\ pc = "loop" /\ alg = "bfs" /\ Cardinality(explored) = 2
    /\ \E n \in 1..Len(nodes) : \E i \in 1..Len(frontier) :
           /\ n > frontier[i]
           /\ nodes[n].state = nodes[frontier[i]].state
           /\ nodes[n].parent # nodes[frontier[i]].parent

\* every entry of the heap fr holds the cheapest node made so far for its
\* state, under the key path_cost (UCS) or path_cost + h(state) (A* )
CheapestInFrontier(ns, fr) ==
    \A i \in 1..Len(fr) :
        LET n == fr[i].node
        IN  /\ fr[i].key = ns[n].path_cost
                    + (IF alg = "astar"
                       THEN get_heuristic(ns[n].state, goal, heuristic_data) ELSE 0)
            /\ \A m \in 1..Len(ns) :
                   ns[m].state = ns[n].state => ns[n].path_cost <= ns[m].path_cost

\* the children of state s made by the iteration that is being taken
NewChildren(s) == {m \in (Len(nodes) + 1)..Len(nodes') : nodes'[m].state = s}

\* one iteration that expands a node: the entry of every state that stays in
\* the frontier is replaced by the new child of that state if the child is
\* strictly cheaper and is left as it is otherwise, and the only other entries
\* afterwards are those of the newly inserted states
Relaxed ==
    /\ \A i \in 1..Len(frontier) :
           LET s == nodes[frontier[i].node].state
           IN  s \notin explored' =>
                   \E j \in 1..Len(frontier') :
                       /\ nodes'[frontier'[j].node].state = s
                       /\ IF \E m \in NewChildren(s) :
                                 nodes'[m].path_cost < nodes[frontier[i].node].path_cost
                          THEN frontier'[j].node \in NewChildren(s)
                          ELSE /\ frontier'[j].node = frontier[i].node
                               /\ frontier'[j].key = frontier[i].key
    /\ Len(frontier') = Len(frontier) - 1
           + Cardinality({s \in DOMAIN graph :
                            /\ NewChildren(s) # {} /\ s \notin explored'
                            /\ s \notin Range(HeapStates(nodes, frontier))})

\* C19: in UCS and A* a generated child whose state is in the frontier with a
\* strictly higher cost replaces that entry and nothing else in the frontier
\* changes, and a child of equal or higher cost leaves the frontier
\* unchanged; so after every step each frontier entry holds the cheapest node
\* generated so far for its state, and its key is that node's path_cost (UCS)
\* or path_cost + h(state) (A* ).
C19_Relaxation ==
    [][(alg \in {"ucs", "astar"}) =>
          /\ CheapestInFrontier(nodes', frontier')
          /\ (pc = "loop" /\ pc' = "loop" /\ frontier # <<>>) => Relaxed]_vars

\* the frontier holds a node that replaced a dearer one of its state, and a
\* node that was kept when a later child of its state came at equal cost
C19_Witness ==
    /\ pc = "loop" /\ alg \in {"ucs", "astar"}
    /\ \E i, j \in 1..Len(frontier) : \E m, k \in 1..Len(nodes) :
           /\ m < frontier[i].node /\ nodes[m].state = nodes[frontier[i].node].state
           /\ nodes[m].path_cost > nodes[frontier[i].node].path_cost
           /\ k > frontier[j].node /\ nodes[k].state = nodes[frontier[j].node].state
           /\ nodes[k].path_cost = nodes[frontier[j].node].path_cost

\* C20: in UCS, DFS, DLS (also under IDS), greedy and A*, frontier_states is
\* exactly the set of the states of the nodes in the frontier, in A* with the
\* path_cost of that node as the recorded cost, and the removal of the popped
\* node's state never fails on a missing key.
C20_FrontierStatesInSync ==
    /\ pc # "raised"
    /\ (alg \in {"ucs", "dfs", "dls", "ids", "greedy"}
           /\ (pc = "loop" \/ (Done /\ start # goal /\ alg # "ids"))) =>
           frontier_states = Range(FrontierStates(nodes, frontier))
    /\ (alg = "astar" /\ pc \in {"loop", "done"} /\ start # goal) =>
           /\ DOMAIN frontier_states = Range(HeapStates(nodes, frontier))
           /\ \A i \in 1..Len(frontier) :
                  frontier_states[nodes[frontier[i].node].state]
                      = nodes[frontier[i].node].path_cost

\* A* replaced the entry of a state by a cheaper node and recorded the lower
\* cost, after that state's first entry had been recorded with the higher one
C20_Witness ==
    /\ pc = "loop" /\ alg = "astar"
    /\ \E i \in 1..Len(frontier) : \E m \in 1..Len(nodes) :
           /\ m < frontier[i].node
           /\ nodes[m].state = nodes[frontier[i].node].state
           /\ nodes[m].path_cost > nodes[frontier[i].node].path_cost
           /\ frontier_states[nodes[m].state] = nodes[frontier[i].node].path_cost

\* C21: with start # goal, BFS, DFS, UCS, DLS, IDS, greedy and A* have taken
\* one snapshot per expansion, at every loop head and in the returned record
\* (len(steps) = nodes_expanded), and every snapshot has a current state; in
\* bidirectional search every snapshot covers one forward and at most one
\* backward expansion: 2 * len(steps) - 1 <= nodes_expanded <= 2 * len(steps).
C21_SnapshotPerExpansion ==
    /\ (alg # "bidirectional" /\ pc = "loop") => Len(steps) = nodes_expanded
    /\ (alg # "bidirectional" /\ Done /\ start # goal) =>
           /\ Len(ret.steps) = ret.nodes_expanded
           /\ \A i \in 1..Len(ret.steps) : ret.steps[i].current # "None"
    /\ (alg = "bidirectional" /\ Done /\ start # goal) =>
           /\ 2 * Len(ret.steps) - 1 <= ret.nodes_expanded
           /\ ret.nodes_expanded <= 2 * Len(ret.steps)
           /\ \A i \in 1..Len(ret.steps) :
                  /\ ret.steps[i].current_forward # "None"
                  /\ (i < Len(ret.steps)) => ret.steps[i].current_backward # "None"
           /\ (ret.nodes_expanded = 2 * Len(ret.steps))
                  = (Last(ret.steps).current_backward # "None")

\* bidirectional search returned from the forward half of its second
\* iteration: two snapshots, three expansions
C21_Witness ==
    /\ Done /\ alg = "bidirectional" /\ Len(ret.steps) = 2
    /\ ret.nodes_expanded = 3 /\ ret.path # <<>>
    /\ ret.steps[2].current_backward = "None"

\* C22: in a run of BFS, DFS, UCS, DLS, greedy or A* every snapshot is taken
\* before the pop: its current state is in its own frontier list and not in
\* its explored set; the first explored set is empty and the explored set of
\* snapshot k + 1 is that of snapshot k plus exactly snapshot k's current
\* state (the states popped in the earlier iterations).
C22_SnapshotBeforePop ==
    (alg \in PopAlgorithms /\ pc \in {"loop", "done"}) =>
        /\ \A k \in 1..Len(steps) :
               /\ steps[k].current \in Range(steps[k].frontier)
               /\ steps[k].current \notin steps[k].explored
               /\ steps[k].explored = {steps[j].current : j \in 1..(k - 1)}
               /\ Cardinality(steps[k].explored) = k - 1
        /\ \A k \in 1..(Len(steps) - 1) :
               steps[k + 1].explored = steps[k].explored \cup {steps[k].current}
        /\ Done => ret.steps = steps

\* a returned trace of three snapshots, the last one with two explored states
C22_Witness ==
    /\ Done /\ alg = "greedy" /\ Len(ret.steps) = 3
    /\ Cardinality(ret.steps[3].explored) = 2
    /\ Len(ret.steps[2].frontier) = 2

\* no Node of the arena ns lies deeper than the limit
WithinLimit(ns, limit) == \A n \in 1..Len(ns) : ns[n].depth <= limit

\* C23: in depth_limited_search (called directly or by IDS) a node popped at
\* depth == depth_limit is goal-tested and added to explored but no child of
\* it is generated; so no node that exists, in the frontier or not, is deeper
\* than the limit, a returned non-empty path has at most depth_limit edges,
\* and with depth_limit = 0 and start # goal the result is the empty path
\* after exactly one expansion.
C23_DepthLimit ==
    [][(alg \in {"dls", "ids"}) =>
          /\ WithinLimit(nodes', depth_limit')
          /\ (alg = "dls" /\ pc' = "done" /\ ret'.path # <<>>) =>
                 Len(ret'.path) - 1 <= depth_limit
          /\ (alg = "dls" /\ pc' = "done" /\ depth_limit = 0 /\ start # goal) =>
                 (ret'.path = <<>> /\ ret'.nodes_expanded = 1)
          /\ (pc = "loop" /\ frontier # <<>>
                 /\ nodes[Last(frontier)].depth = depth_limit) =>
                 /\ nodes' = nodes /\ nodes_generated' = nodes_generated
                 /\ nodes_expanded' = nodes_expanded + 1
                 /\ IF nodes[Last(frontier)].state = goal
                    THEN /\ pc' \in {"done", "ids_acc"}
                         /\ (IF alg = "dls" THEN ret' ELSE result').path
                                = Path(nodes, Last(frontier))
                    ELSE /\ pc' = "loop"
                         /\ explored' = explored \cup {nodes[Last(frontier)].state}
                         /\ frontier' = SubSeq(frontier, 1, Len(frontier) - 1)]_vars

\* depth_limited_search with limit 1 popped a node at depth 1 that has the
\* goal as a neighbor, did not expand it and returned the empty path
C23_Witness ==
    /\ Done /\ alg = "dls" /\ depth_limit = 1 /\ ret.path = <<>>
    /\ MinHops(graph, start, goal) = 2
    /\ ret.nodes_expanded >= 2
    /\ \E n \in 1..Len(nodes) :
           nodes[n].depth = 1 /\ HasEdge(graph, nodes[n].state, goal)

\* C24: whenever the goal is reachable from start over at most depth_limit
\* edges, depth_limited_search returns a non-empty path.
C24_DlsCompleteWithinLimit ==
    (Done /\ alg = "dls" /\ MinHops(graph, start, goal) \in 0..depth_limit) =>
        ret.path # <<>>

\* C25: iterative_deepening_search with start # goal runs depth_limited_search
\* with the limits 0, 1, 2, ... in increasing order, each below max_depth; it
\* stops at the first limit whose result has a non-empty path and returns that
\* result's path and distance; when no limit below max_depth succeeds it returns
\* the empty path and distance 0 after exactly max_depth iterations.
C25_IdsIterations ==
    [][(alg = "ids" /\ start # goal) =>
          /\ (pc = "call") => (pc' = "ids_for" /\ depth' = 0)
          /\ (pc = "ids_for" /\ depth < max_depth) =>
                 (pc' \in {"loop", "ids_acc"} /\ depth_limit' = depth /\ depth' = depth)
          /\ (pc = "loop") => (depth_limit = depth /\ depth' = depth /\ depth < max_depth)
          /\ (pc = "ids_acc" /\ result.path = <<>>) =>
                 (pc' = "ids_for" /\ depth' = depth + 1)
          /\ (pc = "ids_acc" /\ result.path # <<>>) =>
                 /\ pc' = "done" /\ depth < max_depth
                 /\ ret'.path = result.path /\ ret'.distance = result.distance
                 /\ \A i \in 1..Len(ret'.steps) : ret'.steps[i].depth_limit <= depth
                 /\ \A d \in 0..depth : \E i \in 1..Len(ret'.steps) :
                        ret'.steps[i].depth_limit = d
          /\ (pc = "ids_for" /\ depth >= max_depth) =>
                 /\ pc' = "done" /\ depth = max_depth
                 /\ ret'.path = <<>> /\ ret'.distance = 0
                 /\ \A d \in 0..(max_depth - 1) : \E i \in 1..Len(ret'.steps) :
                        ret'.steps[i].depth_limit = d]_vars

C25_Witness ==
    /\ Done /\ alg = "ids" /\ start # goal /\ max_depth = 3
    /\ ret.path # <<>> /\ depth = 2
    /\ \E i \in 1..Len(ret.steps) : ret.steps[i].depth_limit = 1

\* the steps of one iteration, as they appear in the trace of IDS
TaggedTail(all, old, its, d) ==
    /\ Len(all) = Len(old) + Len(its)
    /\ SubSeq(all, 1, Len(old)) = old
    /\ \A i \in 1..Len(its) :
          /\ all[Len(old) + i].frontier = its[i].frontier
          /\ all[Len(old) + i].explored = its[i].explored
          /\ all[Len(old) + i].current = its[i].current
          /\ all[Len(old) + i].depth_limit = d

TagsFromZero(all) ==
    /\ all # <<>> => all[1].depth_limit = 0
    /\ \A i \in 1..(Len(all) - 1) : all[i].depth_limit <= all[i + 1].depth_limit

IdsReports(r, ne, ng, mfs, all) ==
    /\ r.nodes_expanded = ne /\ r.nodes_generated = ng
    /\ r.max_frontier_size = mfs /\ r.steps = all

\* C26 as stated: after every iteration of IDS the running nodes_expanded,
\* nodes_generated and max_frontier_size are each the previous value plus the
\* value of the iteration's depth_limited_search result, so that the reported
\* metrics are the sums of the per-iteration values.
C26_AllMetricsSummed ==
    [][(alg = "ids" /\ pc = "ids_acc") =>
          /\ total_nodes_expanded' = total_nodes_expanded + result.nodes_expanded
          /\ total_nodes_generated' = total_nodes_generated + result.nodes_generated
          /\ ids_max_frontier_size' = ids_max_frontier_size + result.max_frontier_size]_vars

\* C26, amended: nodes_expanded and nodes_generated of IDS are the sums of the
\* per-iteration values and max_frontier_size is their maximum; steps is the
\* concatenation of the per-iteration traces in iteration order, every step
\* tagged with the limit of its iteration, the tags non-decreasing from 0; the
\* returned record reports these accumulated values.
C26_MetricsAccumulate ==
    [][(alg = "ids" /\ start # goal) =>
          /\ (pc = "call") =>
                 /\ total_nodes_expanded' = 0 /\ total_nodes_generated' = 0
                 /\ ids_max_frontier_size' = 0 /\ all_steps' = <<>>
          /\ (pc = "ids_acc") =>
                 /\ total_nodes_expanded' = total_nodes_expanded + result.nodes_expanded
                 /\ total_nodes_generated' = total_nodes_generated + result.nodes_generated
                 /\ ids_max_frontier_size' =
                        (IF result.max_frontier_size > ids_max_frontier_size
                         THEN result.max_frontier_size ELSE ids_max_frontier_size)
                 /\ TaggedTail(all_steps', all_steps, result.steps, depth)
                 /\ TagsFromZero(all_steps')
          /\ (pc \in {"loop", "ids_for"}) =>
                 UNCHANGED <<total_nodes_expanded, total_nodes_generated,
                             ids_max_frontier_size, all_steps>>
          /\ (pc' = "done") =>
                 IdsReports(ret', total_nodes_expanded', total_nodes_generated',
                            ids_max_frontier_size', all_steps')]_vars

C26_Witness ==
    /\ Done /\ alg = "ids" /\ start # goal /\ ret.path # <<>> /\ depth = 2
    /\ ret.max_frontier_size = 1
    /\ ret.nodes_expanded = Len(ret.steps) /\ ret.nodes_expanded >= 5
    /\ ret.steps[Len(ret.steps)].depth_limit = 2

\* C27: whenever the goal is reachable from start over at most max_depth - 1
\* edges, iterative_deepening_search returns a non-empty path with the minimum
\* number of edges of any path from start to goal.
C27_IdsFewestEdges ==
    (Done /\ alg = "ids" /\ MinHops(graph, start, goal) \in 0..(max_depth - 1)) =>
        (ret.path # <<>> /\ Len(ret.path) - 1 = MinHops(graph, start, goal))

\* C28: in bidirectional_search the forward and the backward explored maps have
\* no state in common at the head of any loop iteration, and a returned path
\* contains no state twice.
C28_ExploredDisjoint ==
    /\ (alg = "bidirectional" /\ pc = "loop") =>
           Range(SeqDictKeys(forward_explored)) \cap
               Range(SeqDictKeys(backward_explored)) = {}
    /\ (alg = "bidirectional" /\ Done) => Distinct(ret.path)

C28_Witness ==
    /\ Done /\ alg = "bidirectional" /\ Len(ret.path) = 5 /\ Len(ret.steps) = 3
    /\ Len(ret.steps[3].forward_explored) = 2
    /\ Len(ret.steps[3].backward_explored) = 2
    /\ Len(forward_explored) = 3 /\ Len(backward_explored) = 3

\* the node that the next iteration of a heap-ordered search pops
NextPopped(ns, fr) == heappop(ns, fr)[1].node

\* C29: in uniform_cost_search the node popped in an iteration has the least
\* path_cost of all entries of the frontier at that moment, and the node popped
\* in the following iteration does not have a smaller path_cost.
C29_UcsPopOrder ==
    [][(alg = "ucs" /\ pc = "loop" /\ frontier # <<>>) =>
          /\ \A i \in 1..Len(frontier) :
                 /\ frontier[i].key = nodes[frontier[i].node].path_cost
                 /\ nodes[NextPopped(nodes, frontier)].path_cost <=
                        nodes[frontier[i].node].path_cost
          /\ (pc' = "loop" /\ frontier' # <<>>) =>
                 nodes[NextPopped(nodes, frontier)].path_cost <=
                     nodes'[NextPopped(nodes', frontier')].path_cost]_vars

C29_Witness ==
    /\ alg = "ucs" /\ pc = "loop" /\ Len(frontier) >= 2 /\ nodes_expanded >= 2
    /\ nodes[NextPopped(nodes, frontier)].path_cost >= 1
    /\ \E i \in 1..Len(frontier) :
          nodes[frontier[i].node].path_cost > nodes[NextPopped(nodes, frontier)].path_cost
    /\ \E n \in 1..Len(nodes) :
          /\ nodes[n].path_cost > nodes[NextPopped(nodes, frontier)].path_cost
          /\ nodes[n].state = nodes[NextPopped(nodes, frontier)].state

StackAlgorithms == {"dfs", "dls", "ids"}

\* the neighbors of state s, in the graph's order, that are neither in ex nor
\* the state of a node of the stack fr
FreshNeighbors(g, s, ns, fr, ex) ==
    SelectSeq([i \in 1..Len(g[s]) |-> g[s][i][1]],
              LAMBDA t : t \notin ex /\ t \notin Range(StatesOf(ns, fr)))

\* C30: in depth_first_search, and in depth_limited_search below the limit,
\* after a node that is not the goal is popped and expanded, the top of the
\* stack is the child for the first neighbor, in the graph's order, that is
\* neither explored nor in the frontier, the other such neighbors lying below it
\* in reversed order; when no child is inserted (or the node is at the limit)
\* the stack is the old one without the popped node, so the next pop is the
\* most recently pushed remaining node.
C30_LeftToRight ==
    [][(alg \in StackAlgorithms /\ pc = "loop" /\ frontier # <<>> /\ pc' = "loop") =>
          LET node  == Last(frontier)
              rest  == SubSeq(frontier, 1, Len(frontier) - 1)
              fresh == IF alg = "dfs" \/ nodes[node].depth < depth_limit
                       THEN FreshNeighbors(graph, nodes[node].state, nodes, rest,
                                           explored \cup {nodes[node].state})
                       ELSE <<>>
          IN  /\ Len(frontier') = Len(rest) + Len(fresh)
              /\ SubSeq(frontier', 1, Len(rest)) = rest
              /\ \A i \in 1..Len(fresh) :
                     /\ nodes'[frontier'[Len(frontier') + 1 - i]].state = fresh[i]
                     /\ nodes'[frontier'[Len(frontier') + 1 - i]].parent = node
              /\ fresh # <<>> => nodes'[Last(frontier')].state = fresh[1]]_vars

C30_Witness ==
    /\ alg = "dfs" /\ pc = "loop" /\ Len(frontier) >= 3 /\ nodes_expanded >= 2
    /\ nodes[Last(frontier)].parent = nodes[frontier[Len(frontier) - 1]].parent
    /\ LET p == nodes[nodes[Last(frontier)].parent].state
       IN  /\ Len(graph[p]) = 3
           /\ graph[p][1][1] \in explored
           /\ graph[p][2][1] = nodes[Last(frontier)].state
           /\ graph[p][3][1] = nodes[frontier[Len(frontier) - 1]].state

====
